---- MODULE Spec2Model ----
(***************************************************************************)
(* A model of the mcp-netops gateway core: the inventory store with its    *)
(* RBAC filter, the Scrapli session pool with transport failover, and the  *)
(* run_command pipeline of the executor.                                   *)
(*                                                                         *)
(* Text values on which the code performs conversions (strip, lower, regex *)
(* matching) are sequences of one-character strings.  Optional values      *)
(* (Python's None) are sequences of length 0 or 1.                         *)
(***************************************************************************)
EXTENDS Naturals, Sequences, FiniteSets

VARIABLES
    file,         \* the backing inventory file: [mtime, body]
    _CACHE,       \* inventory._CACHE: hostname -> Device
    _CACHE_MTIME, \* inventory._CACHE_MTIME
    _POOL,        \* session._POOL: hostname -> connection id (0 = no entry)
    conns,        \* the ScrapliConn objects created so far, by id
    runs,         \* the run_command coroutines, by id
    audit,        \* the two audit sinks: [log, file]
    lastCall      \* the last direct inventory call and its result

vars == <<file, _CACHE, _CACHE_MTIME, _POOL, conns, runs, audit, lastCall>>

---------------------------------------------------------------------------
(* Bounds of the model *)

\* number of run_command calls in one behaviour
MaxRuns == 2

Procs == 1..MaxRuns

---------------------------------------------------------------------------
(* Text helpers: str.strip(), str.lower(), character classes of re *)

None == <<>>
Some(v) == <<v>>

LowerLetters ==
    <<"a","b","c","d","e","f","g","h","i","j","k","l","m",
      "n","o","p","q","r","s","t","u","v","w","x","y","z">>

UpperLetters ==
    <<"A","B","C","D","E","F","G","H","I","J","K","L","M",
      "N","O","P","Q","R","S","T","U","V","W","X","Y","Z">>

Digits == {"0","1","2","3","4","5","6","7","8","9"}

Range(s) == {s[i] : i \in DOMAIN s}

\* the characters str.strip() removes
Whitespace == {" ", "\t", "\n", "\r"}

\* the characters matched by \w (so \b is a boundary between \w and not-\w)
WordChars == Range(LowerLetters) \cup Range(UpperLetters) \cup Digits \cup {"_"}

\* the lower-case letter of each upper-case letter
LowerOf ==
    [c \in Range(UpperLetters) |->
        LowerLetters[CHOOSE i \in DOMAIN UpperLetters : UpperLetters[i] = c]]

LowerChar(c) == IF c \in DOMAIN LowerOf THEN LowerOf[c] ELSE c

\* str.lower()
Lower(s) == [i \in 1..Len(s) |-> LowerChar(s[i])]

\* str.strip()
Strip(s) ==
    LET keep == {i \in 1..Len(s) : s[i] \notin Whitespace}
    IN  IF keep = {} THEN <<>>
        ELSE LET lo == CHOOSE i \in keep : \A j \in keep : i <= j
                 hi == CHOOSE i \in keep : \A j \in keep : j <= i
             IN  SubSeq(s, lo, hi)

StartsWith(s, p) == Len(p) <= Len(s) /\ SubSeq(s, 1, Len(p)) = p

---------------------------------------------------------------------------
(* executor._validate_command *)

\* the alternation of _READ_ONLY_PATTERN
_READ_ONLY_VERBS ==
    { <<"s","h","o","w">>,
      <<"p","i","n","g">>,
      <<"t","r","a","c","e","r","o","u","t","e">> }

\* a mutant of _READ_ONLY_PATTERN: the pattern has no \b after the verb
ReadOnlyPatternNoBoundary(s) ==
    \E v \in _READ_ONLY_VERBS : StartsWith(Lower(s), v)

\* re.compile(r"^(show|ping|traceroute)\b", re.IGNORECASE).match(s)
_READ_ONLY_PATTERN(s) ==
    \E v \in _READ_ONLY_VERBS :
        /\ StartsWith(Lower(s), v)
        /\ Len(s) = Len(v) \/ s[Len(v) + 1] \notin WordChars

\* a mutant of _validate_command: the test of the match is inverted
ValidateInverted(command) == ~_READ_ONLY_PATTERN(Strip(command))

\* TRUE when _validate_command returns, FALSE when it raises
_validate_command(command) == _READ_ONLY_PATTERN(Strip(command))

---------------------------------------------------------------------------
(* models.inventory.Device *)

PlatIOS == <<"i","o","s">>
PlatIOSUpper == <<"I","O","S">>
PlatIOSXE == <<"i","o","s","x","e">>
PlatIOSXR == <<"i","o","s","x","r">>
PlatNXOS == <<"n","x","o","s">>
PlatASA == <<"a","s","a">>

\* the keys of Device._NETMIKO_MAP
_NETMIKO_MAP == {PlatIOS, PlatIOSXE, PlatIOSXR, PlatNXOS, PlatASA}

\* Device._check_platform / netmiko_driver: the platform has a Netmiko type
_check_platform(platform) == Lower(platform) \in _NETMIKO_MAP

PortMin == 1
PortMax == 65535

\* Device.model_validate(host_entry): the required str fields are present
\* and not null, the port (if any) is in range, the platform is known
DeviceValid(e) ==
    /\ e.username # None
    /\ e.password # None
    /\ e.port = None \/ (e.port[1] >= PortMin /\ e.port[1] <= PortMax)
    /\ _check_platform(e.platform)

---------------------------------------------------------------------------
(* The inventory files and the callers the model draws from *)

Entry(hn, h, pl, u, pw, tg, po) ==
    [hostname |-> hn, host |-> h, platform |-> pl, username |-> u,
     password |-> pw, tags |-> tg, port |-> po]

\* an IOS-XE router of the lab, default port
DevR1 == Entry("r1", "10.0.0.1", PlatIOSXE, Some("netops"), Some("pw1"), {"lab"}, None)
\* a classic IOS router with no tags and a custom port
DevR2 == Entry("r2", "10.0.0.2", PlatIOSUpper, Some("netops"), Some("pw2"), {}, Some(2222))
\* a console server port: no credentials configured
DevR3 == Entry("r3", "10.0.0.3", PlatIOS, None, None, {"lab"}, None)

\* a record whose port is out of range
DevR4 == Entry("r4", "10.0.0.4", PlatNXOS, Some("netops"), Some("pw4"), {"lab"}, Some(70000))

BodyLab == <<DevR1, DevR2>>
BodyConsole == <<DevR1, DevR3>>
\* a file with an invalid record after a valid one
BodyMalformed == <<DevR1, DevR4>>

Bodies == {BodyLab, BodyConsole, BodyMalformed}

Hostnames == {"r1", "r2", "r3"}

User(n, r, t) == [username |-> n, roles |-> r, allowed_tags |-> t]

UserAdmin == User("root", {"admin"}, {})
UserLab == User("alice", {}, {"lab"})

Users == {UserAdmin, UserLab}

---------------------------------------------------------------------------
(* services.inventory *)

RECURSIVE LoadEntries(_, _, _)
\* the loop of _load_yaml over raw["devices"]: the table built so far, or
\* the failure of the first invalid entry
LoadEntries(body, i, inventory) ==
    IF i > Len(body) THEN [ok |-> TRUE, table |-> inventory]
    ELSE IF ~DeviceValid(body[i]) THEN [ok |-> FALSE, table |-> inventory]
    ELSE LoadEntries(body, i + 1,
            [h \in DOMAIN inventory \cup {body[i].hostname} |->
                IF h = body[i].hostname THEN body[i] ELSE inventory[h]])

EmptyTable == [h \in {} |-> 0]

\* a mutant of _load_yaml: the cache is filled entry by entry, so a reload
\* that fails leaves the entries read so far
LoadYamlInPlace(f, cache, cache_mtime) ==
    IF f.mtime <= cache_mtime /\ DOMAIN cache # {}
    THEN [ok |-> TRUE, cache |-> cache, mtime |-> cache_mtime, read |-> FALSE]
    ELSE LET r == LoadEntries(f.body, 1, EmptyTable)
         IN  [ok |-> r.ok, cache |-> r.table,
              mtime |-> IF r.ok THEN f.mtime ELSE cache_mtime, read |-> TRUE]

\* a mutant of _load_yaml: the modification time is recorded before the
\* entries are validated, so a reload that fails is not attempted again
LoadYamlStampsFirst(f, cache, cache_mtime) ==
    IF f.mtime <= cache_mtime /\ DOMAIN cache # {}
    THEN [ok |-> TRUE, cache |-> cache, mtime |-> cache_mtime, read |-> FALSE]
    ELSE LET r == LoadEntries(f.body, 1, EmptyTable)
         IN  [ok |-> r.ok, cache |-> IF r.ok THEN r.table ELSE cache,
              mtime |-> f.mtime, read |-> TRUE]

\* _load_yaml(): [ok, cache, mtime, read]; ok = FALSE is InventoryLoadError,
\* which leaves the cache and its mtime as they were; read: the file was read
\* (it is not when "mtime <= _CACHE_MTIME and _CACHE" holds: an empty dict is
\* false in Python)
_load_yaml(f, cache, cache_mtime) ==
    IF f.mtime <= cache_mtime /\ DOMAIN cache # {}
    THEN [ok |-> TRUE, cache |-> cache, mtime |-> cache_mtime, read |-> FALSE]
    ELSE LET r == LoadEntries(f.body, 1, EmptyTable)
         IN  IF r.ok
             THEN [ok |-> TRUE, cache |-> r.table, mtime |-> f.mtime,
                   read |-> TRUE]
             ELSE [ok |-> FALSE, cache |-> cache, mtime |-> cache_mtime,
                   read |-> TRUE]

\* a mutant of _is_authorised: the admin role is not honoured
IsAuthorisedTagsOnly(device, user) ==
    device.tags \cap user.allowed_tags # {}

\* a mutant of _is_authorised: every caller is authorised
IsAuthorisedAlways(device, user) == device = device /\ user = user

_is_authorised(device, user) ==
    IF "admin" \in user.roles THEN TRUE
    ELSE device.tags \cap user.allowed_tags # {}

\* get_device on a loaded table: the Device, or None
get_device(inventory, hostname, user) ==
    IF hostname \notin DOMAIN inventory THEN None
    ELSE IF _is_authorised(inventory[hostname], user)
         THEN Some(inventory[hostname])
         ELSE None

\* a mutant of DevicePublic: the record is passed on as it is
DevicePublicWhole(d) == d

\* DevicePublic(**d.model_dump()): extra fields are ignored
DevicePublic(d) ==
    [hostname |-> d.hostname, host |-> d.host, platform |-> d.platform,
     tags |-> d.tags]

\* list_devices on a loaded table
list_devices(inventory, user) ==
    {DevicePublic(inventory[h]) :
        h \in {k \in DOMAIN inventory : _is_authorised(inventory[k], user)}}

---------------------------------------------------------------------------
(* services.session: transport selection and failover of _open *)

\* the keys of _DRIVER_MAP
_DRIVER_MAP == {PlatIOS, PlatIOSXE, PlatNXOS, PlatIOSXR}

SSHDefaultPort == 22
TelnetDefaultPort == 23

\* Python's "port or default" on an optional int
PortOr(port, default) ==
    IF port = None \/ port[1] = 0 THEN default ELSE port[1]

Attempt(t, po) == [transport |-> t, port |-> po]

Telnet == Some("telnet")

\* the kind of transport Scrapli instantiates for an attempt
TransportKind(t) == IF t = None THEN "ssh" ELSE t[1]

no_auth(dev) == dev.username = None /\ dev.password = None

\* a mutant of attempts: the Telnet fallback is offered to every platform
AttemptsTelnetForAll(dev) ==
    IF no_auth(dev)
    THEN <<Attempt(Telnet, PortOr(dev.port, TelnetDefaultPort)),
           Attempt(None, PortOr(dev.port, SSHDefaultPort))>>
    ELSE <<Attempt(None, PortOr(dev.port, SSHDefaultPort)),
           Attempt(Telnet, PortOr(dev.port, TelnetDefaultPort))>>

\* the ordered list of (transport, port) attempts built by _open
attempts(dev) ==
    IF no_auth(dev)
    THEN <<Attempt(Telnet, PortOr(dev.port, TelnetDefaultPort)),
           Attempt(None, PortOr(dev.port, SSHDefaultPort))>>
    ELSE <<Attempt(None, PortOr(dev.port, SSHDefaultPort))>> \o
         (IF Lower(dev.platform) = PlatIOS
          THEN <<Attempt(Telnet, PortOr(dev.port, TelnetDefaultPort))>>
          ELSE <<>>)

\* what drv.open() can do on one attempt
OpenOutcomes == {"ok", "ScrapliAuthenticationFailed", "ScrapliTimeout", "OSError"}

\* a mutant of Retryable: every exception of an attempt is caught
RetryableAll == OpenOutcomes \ {"ok"}

\* the exceptions the attempt loop catches to go on with the next attempt
Retryable == {"ScrapliAuthenticationFailed", "ScrapliTimeout"}

Tried(a, o) == [transport |-> a.transport, port |-> a.port, outcome |-> o]

RECURSIVE OpenLoopFirstCause(_, _, _, _, _)
\* a mutant of OpenLoop: last_exc keeps the first exception caught
OpenLoopFirstCause(plan, outs, i, last_exc, log) ==
    IF i > Len(plan)
    THEN [ok |-> FALSE, exc |-> "RuntimeError", cause |-> last_exc,
          plan |-> plan, log |-> log]
    ELSE LET log2 == Append(log, Tried(plan[i], outs[i]))
         IN  IF outs[i] = "ok"
             THEN [ok |-> TRUE, exc |-> "", cause |-> "",
                   plan |-> plan, log |-> log2]
             ELSE IF outs[i] \in Retryable
             THEN OpenLoopFirstCause(plan, outs, i + 1,
                      IF last_exc = "" THEN outs[i] ELSE last_exc, log2)
             ELSE [ok |-> FALSE, exc |-> outs[i], cause |-> outs[i],
                   plan |-> plan, log |-> log2]

RECURSIVE OpenLoop(_, _, _, _, _)
\* the for loop of _open over the attempts, outs[i] being what drv.open()
\* does on attempt i
OpenLoop(plan, outs, i, last_exc, log) ==
    IF i > Len(plan)
    THEN [ok |-> FALSE, exc |-> "RuntimeError", cause |-> last_exc,
          plan |-> plan, log |-> log]
    ELSE LET log2 == Append(log, Tried(plan[i], outs[i]))
         IN  IF outs[i] = "ok"
             THEN [ok |-> TRUE, exc |-> "", cause |-> "",
                   plan |-> plan, log |-> log2]
             ELSE IF outs[i] \in Retryable
             THEN OpenLoop(plan, outs, i + 1, outs[i], log2)
             ELSE [ok |-> FALSE, exc |-> outs[i], cause |-> outs[i],
                   plan |-> plan, log |-> log2]

\* _open(): one pass over the attempts of the device.  names: the host the
\* message of the error names ("": the message names no host)
_open(dev, outs) ==
    IF Lower(dev.platform) \notin _DRIVER_MAP
    THEN [ok |-> FALSE, exc |-> "RuntimeError", cause |-> "Unsupported platform",
          plan |-> <<>>, log |-> <<>>, names |-> ""]
    ELSE LET o == OpenLoop(attempts(dev), outs, 1, "", <<>>)
         IN  [ok |-> o.ok, exc |-> o.exc, cause |-> o.cause, plan |-> o.plan,
              log |-> o.log,
              names |-> IF ~o.ok /\ o.exc = "RuntimeError" THEN dev.host ELSE ""]

---------------------------------------------------------------------------
(* services.session: the pool *)

\* a slot of conns no connection has been created in
NoConn == [host |-> "", transport |-> "", port |-> 0, made |-> FALSE,
           alive |-> FALSE, closed |-> FALSE, failed |-> FALSE]

\* ScrapliConn(drv) after a successful drv.open()
NewConn(dev, tried) ==
    [host |-> dev.hostname, transport |-> TransportKind(tried.transport),
     port |-> tried.port, made |-> TRUE,
     alive |-> TRUE, closed |-> FALSE, failed |-> FALSE]

\* ScrapliConn.is_alive() of connection c in the table cs of connections
is_alive(cs, c) == cs[c].alive

\* a mutant of NeedsOpen: the liveness of the pooled session is not checked
NeedsOpenNoLiveness(cs, c) == c = 0 /\ cs = cs

\* the condition of __aenter__ for opening a connection
NeedsOpen(cs, c) == c = 0 \/ ~is_alive(cs, c)

\* a mutant of PoolInsert: an existing entry is kept (dict.setdefault)
PoolInsertIfAbsent(pool, key, c) ==
    [pool EXCEPT ![key] = IF @ = 0 THEN c ELSE @]

\* _POOL[self._key] = self._conn
PoolInsert(pool, key, c) == [pool EXCEPT ![key] = c]

\* _POOL.pop(self._key, None)
PoolPop(pool, key) == [pool EXCEPT ![key] = 0]

---------------------------------------------------------------------------
(* services.executor: the call of conn.send_command, parser, audit *)

\* the keyword arguments run_command passes to conn.send_command
SendCallKwargs == {"strip_prompt", "strip_command"}

\* the keyword parameters ScrapliConn.send_command accepts besides command
SendParams == {}

\* whether the call binds to the method's signature (else TypeError)
SendCallBinds == SendCallKwargs \subseteq SendParams

\* what the driver does with a command that reaches it on a live session
DriverOutcomes == {"output", "ScrapliTimeout"}

ShowIpIntBrief ==
    <<"s","h","o","w"," ","i","p"," ","i","n","t"," ","b","r","i","e","f">>

\* the test of maybe_parse for the one registered parser
HasParse(command) == StartsWith(Lower(Strip(command)), ShowIpIntBrief)

---------------------------------------------------------------------------
(* services.parser *)

\* the line boundaries of str.splitlines() the model's texts use
LineBreaks == {"\n", "\r"}

RECURSIVE splitlines(_)
\* raw.splitlines(): no line for a final line break, "\r\n" is one break
splitlines(s) ==
    IF s = <<>> THEN <<>>
    ELSE LET brk == {i \in 1..Len(s) : s[i] \in LineBreaks}
         IN  IF brk = {} THEN <<s>>
             ELSE LET i == CHOOSE k \in brk : \A j \in brk : k <= j
                      n == IF s[i] = "\r" /\ i < Len(s) /\ s[i + 1] = "\n"
                           THEN 2 ELSE 1
                  IN  <<SubSeq(s, 1, i - 1)>>
                          \o splitlines(SubSeq(s, i + n, Len(s)))

\* the words of _HEADER_RE, in lower case (the pattern is compiled with re.I)
HeaderWords ==
    << <<"i","n","t","e","r","f","a","c","e">>,
       <<"i","p","-","a","d","d","r","e","s","s">>,
       <<"o","k","?">>,
       <<"m","e","t","h","o","d">>,
       <<"s","t","a","t","u","s">>,
       <<"p","r","o","t","o","c","o","l">> >>

\* the number of characters of set cs at the start of s
RunLength(s, cs) ==
    LET stop == {i \in 1..Len(s) : s[i] \notin cs}
    IN  IF stop = {} THEN Len(s)
        ELSE (CHOOSE k \in stop : \A j \in stop : k <= j) - 1

RECURSIVE MatchWords(_, _)
\* l begins with word k of the header, then " +" and the words after it
MatchWords(l, k) ==
    IF ~StartsWith(l, HeaderWords[k]) THEN FALSE
    ELSE IF k = Len(HeaderWords) THEN TRUE
    ELSE LET rest == SubSeq(l, Len(HeaderWords[k]) + 1, Len(l))
             n    == RunLength(rest, {" "})
         IN  n >= 1 /\ MatchWords(SubSeq(rest, n + 1, Len(rest)), k + 1)

\* _HEADER_RE.match(l)
_HEADER_RE(l) == MatchWords(Lower(l), 1)

\* maxsplit of the re.split call
MaxSplit == 5

\* the number of parts a line needs to give a record
PartsNeeded == 6

RECURSIVE ReSplit(_, _)
\* re.split(r"\s+", s, maxsplit): the parts between runs of white space, an
\* empty part before a leading run and after a trailing one; after maxsplit
\* splits the rest is the last part as it is
ReSplit(s, maxsplit) ==
    LET ws == {i \in 1..Len(s) : s[i] \in Whitespace}
    IN  IF maxsplit = 0 \/ ws = {} THEN <<s>>
        ELSE LET i    == CHOOSE k \in ws : \A j \in ws : k <= j
                 tail == SubSeq(s, i, Len(s))
                 n    == RunLength(tail, Whitespace)
             IN  <<SubSeq(s, 1, i - 1)>>
                     \o ReSplit(SubSeq(tail, n + 1, Len(tail)), maxsplit - 1)

\* the dict appended to entries for the parts of a line
InterfaceEntry(parts) ==
    [interface |-> parts[1], ip_address |-> parts[2], ok |-> parts[3],
     method |-> parts[4], status |-> parts[5], protocol |-> parts[6]]

RECURSIVE ParseRows(_, _, _)
\* the loop of _parse_show_ip_int_brief over the lines after the header
ParseRows(lines, i, entries) ==
    IF i > Len(lines) THEN entries
    ELSE IF Strip(lines[i]) = <<>> THEN ParseRows(lines, i + 1, entries)
    ELSE LET parts == ReSplit(lines[i], MaxSplit)
         IN  IF Len(parts) < PartsNeeded
             THEN ParseRows(lines, i + 1, entries)
             ELSE ParseRows(lines, i + 1, Append(entries, InterfaceEntry(parts)))

\* the dict {} returned when no header line is found
EmptyStructure == [keys |-> {}, interfaces |-> <<>>]

\* _parse_show_ip_int_brief(raw): {} or {"interfaces": entries}
_parse_show_ip_int_brief(raw) ==
    LET lines == splitlines(raw)
        hdrs  == {i \in 1..Len(lines) : _HEADER_RE(lines[i])}
    IN  IF hdrs = {} THEN EmptyStructure
        ELSE LET hdr_idx == CHOOSE k \in hdrs : \A j \in hdrs : k <= j
             IN  [keys |-> {"interfaces"},
                  interfaces |-> ParseRows(lines, hdr_idx + 1, <<>>)]

\* maybe_parse(command=, raw=, platform=): the structure, or None
maybe_parse(command, raw) ==
    IF HasParse(command) THEN Some(_parse_show_ip_int_brief(raw)) ELSE None

---------------------------------------------------------------------------
(* services.audit *)

\* the keyword arguments audit.record passes to Path.write_text
WriteTextCallKwargs == {"append"}

\* the keyword parameters pathlib.Path.write_text accepts
WriteTextParams == {"encoding", "errors", "newline"}

\* what logger.bind(audit=True).info(...) can do: with the sinks the repository
\* configures (none added, Loguru's default handler) the call returns; with a
\* sink that lets its failure out, it raises
LogOutcomes == {"ok", "raise"}

\* the outcome of the log emission inside run_command
PipelineLogOutcomes == {"ok"}

\* what _AUDIT_PATH.write_text(..., append=True) does
WriteOutcome ==
    IF WriteTextCallKwargs \subseteq WriteTextParams THEN "ok" ELSE "TypeError"

\* a mutant of record: the failure of the file write is not caught
RecordWriteUncaught(a, event, log_outcome) ==
    [log    |-> IF log_outcome = "ok" THEN Append(a.log, event) ELSE a.log,
     file   |-> a.file,
     raised |-> TRUE,
     write  |-> IF log_outcome = "ok" THEN WriteOutcome ELSE "none"]

\* audit.record(): the log line is emitted outside any try, so a failure of
\* the emission leaves record as an exception before the file is touched; then
\* the file write is attempted and its failure caught.  raised: record ended
\* by an exception; write: what became of the file write ("none": not made)
record(a, event, log_outcome) ==
    IF log_outcome # "ok"
    THEN [log |-> a.log, file |-> a.file, raised |-> TRUE, write |-> "none"]
    ELSE [log    |-> Append(a.log, event),
          file   |-> IF WriteOutcome = "ok" THEN Append(a.file, event) ELSE a.file,
          raised |-> FALSE,
          write  |-> WriteOutcome]

---------------------------------------------------------------------------
(* The commands and device outputs the model draws from *)

\* an allow-listed command, with surrounding blanks and mixed case
CmdShow == <<" ","S","h","o","w"," ","v","e","r"," ">>
\* a configuration command
CmdConf == <<"c","o","n","f"," ","t">>
\* a command whose first word only has a verb as its prefix
CmdShowfoo == <<"s","h","o","w","f","o","o">>

Commands == {CmdShow, CmdConf, CmdShowfoo}

RawOutputs == {<<"I","O","S"," ","1","5">>}

\* the interface-brief command, plain, with blanks and capitals, with arguments
CmdBrief ==
    <<"s","h","o","w"," ","i","p"," ","i","n","t"," ","b","r","i","e","f">>
CmdBriefMixed ==
    <<" ","S","h","o","w"," ","I","P"," ","i","n","t"," ","B","r","i","e","f"," ">>
CmdBriefVrf == CmdBrief \o <<" ","v","r","f"," ","a">>
CmdPing == <<"p","i","n","g"," ","1",".","1">>

\* allow-listed commands whose output is captured
CommandsSent == {CmdShow, CmdBrief, CmdBriefMixed, CmdBriefVrf, CmdPing}

RECURSIVE Join(_, _)
\* the sequences of parts, with sep between them
Join(parts, sep) ==
    IF parts = <<>> THEN <<>>
    ELSE IF Len(parts) = 1 THEN parts[1]
    ELSE parts[1] \o sep \o Join(Tail(parts), sep)

Row(tokens) == Join(tokens, <<" ">>)
Text(lines) == Join(lines, <<"\n">>)

\* the words of a data line after the interface name
Tok == [ip |-> <<"1",".","1">>, yes |-> <<"Y","E","S">>, nv |-> <<"N","V">>,
        up |-> <<"u","p">>, down |-> <<"d","n">>, admin |-> <<"a","d","m">>]

\* the header line of the device, with two blanks after its first word
LineHeader ==
    <<"I","n","t","e","r","f","a","c","e"," "," ","I","P","-","A","d","d","r",
      "e","s","s"," ","O","K","?"," ","M","e","t","h","o","d"," ","S","t","a",
      "t","u","s"," ","P","r","o","t","o","c","o","l">>
\* six fields
LineUp == Row(<< <<"g","1">>, Tok.ip, Tok.yes, Tok.nv, Tok.up, Tok.up >>)
\* seven fields: the status is two words
LineAdminDown ==
    Row(<< <<"g","2">>, Tok.ip, Tok.yes, Tok.nv, Tok.admin, Tok.down, Tok.down >>)
\* three fields
LineShort == Row(<< <<"g","3">>, Tok.ip, Tok.yes >>)
\* five fields after a leading blank
LineLeading == <<" ">> \o Row(<< <<"g","4">>, Tok.ip, Tok.yes, Tok.nv, Tok.up >>)
\* five fields and a trailing blank
LineTrailing == Row(<< <<"g","5">>, Tok.ip, Tok.yes, Tok.nv, Tok.up >>) \o <<" ">>
\* six fields and trailing blanks
LinePadded == LineUp \o <<" ", " ">>
LineBlank == <<" ", "\t">>
LineBanner == <<"I","O","S"," ","1","5">>

\* the outputs a device gives
RawTexts ==
    { <<>>,
      LineBanner,
      Text(<<LineUp, LineAdminDown>>),
      Text(<<LineHeader>>),
      Text(<<LineHeader, LineUp, LineAdminDown>>),
      Text(<<LineBanner, LineHeader, LineUp, LineBlank, LineShort, LinePadded>>)
          \o <<"\n">>,
      Text(<<LineHeader, LineUp, LineHeader, LineUp>>),
      Join(<<LineHeader, LineUp, LineShort>>, <<"\r", "\n">>),
      Text(<<LineHeader, LineLeading>>),
      Text(<<LineHeader, LineUp, LineTrailing>>),
      Text(<<<<" ">> \o LineHeader, LineUp>>) }

---------------------------------------------------------------------------
(* The run_command coroutines *)

NoUser == User("", {}, {})

\* a run_command call not made yet.  dev, conn, result are the coroutine's
\* locals; found (the pool entry __aenter__ saw), foundDead (it failed
\* is_alive), reusedFailed, passes, plan, log, sends, prior, stage, cause,
\* parseRaised (maybe_parse raised), write (what became of the audit file
\* write) and names (the host named by the message of the error of the open)
\* record what the call did
IdleRun ==
    [pc |-> "idle", device |-> "", command |-> <<>>, user |-> NoUser,
     dev |-> None, conn |-> 0, found |-> 0, foundDead |-> FALSE,
     reusedFailed |-> FALSE, passes |-> 0, plan |-> <<>>, log |-> <<>>,
     sends |-> 0, result |-> "", stage |-> "", cause |-> "",
     raw |-> None, prior |-> {},
     parsed |-> None, parseRaised |-> FALSE, write |-> "none", names |-> ""]

Done(p) == runs[p].pc = "done"

\* the run ends by raising exception exc at a stage of the pipeline
Raise(r, exc, stage, cause) ==
    [r EXCEPT !.pc = "done", !.result = exc, !.stage = stage, !.cause = cause]

\* the pooled connection c as __aenter__ finds it: dropped says whether the
\* device or the network has dropped it since it was last used
Observed(c, dropped) ==
    IF c # 0 /\ dropped THEN [conns EXCEPT ![c].alive = FALSE] ELSE conns

\* connection c is a pool entry whose is_alive() is false
Dead(cs, c) == IF c = 0 THEN FALSE ELSE ~cs[c].alive

\* the positions of a coroutine at which a blocking call on the device is in
\* progress: _open, conn.send_command, and conn.close and the pop of _purge
Blocking == {"opening", "sending", "purge_close", "purge_pop"}

\* a mutant of InThreadpool: the blocking calls are made by the coroutine itself
InThreadpoolNone == {}

\* the positions at which the coroutine is suspended in
\* "await run_in_threadpool(...)": the call runs on a worker thread
InThreadpool == {"opening", "sending", "purge_close", "purge_pop"}

\* the event loop thread is inside a blocking call, so no coroutine is resumed
\* or started
LoopBlocked == \E p \in Procs : runs[p].pc \in Blocking \ InThreadpool

\* run_command from its first line to the first await: Resolve, validate,
\* and the pool lookup and liveness check of __aenter__ (all on the event
\* loop, with no suspension point in between)
Enter(p, device, command, user, dropped) ==
    /\ runs[p].pc = "idle"
    /\ ~LoopBlocked
    /\ IF p = 1 THEN TRUE ELSE runs[p - 1].pc # "idle"
    /\ LET ld  == _load_yaml(file, _CACHE, _CACHE_MTIME)
           r0  == [runs[p] EXCEPT !.device = device, !.command = command,
                                  !.user = user,
                                  !.prior = {q \in Procs : Done(q)}]
           d   == get_device(ld.cache, device, user)
           c   == _POOL[device]
       IN  /\ _CACHE' = ld.cache
           /\ _CACHE_MTIME' = ld.mtime
           /\ IF ~ld.ok
              THEN /\ runs' = [runs EXCEPT ![p] =
                         Raise(r0, "InventoryLoadError", "resolve", "")]
                   /\ conns' = conns
              ELSE IF d = None
              THEN /\ runs' = [runs EXCEPT ![p] =
                         Raise(r0, "DeviceNotFoundError", "resolve", "")]
                   /\ conns' = conns
              ELSE IF ~_validate_command(command)
              THEN /\ runs' = [runs EXCEPT ![p] =
                         Raise(r0, "CommandExecutionError", "validate", "")]
                   /\ conns' = conns
              ELSE LET cs == Observed(c, dropped)
                   IN  /\ conns' = cs
                       /\ runs' = [runs EXCEPT ![p] =
                            LET r1 == [r0 EXCEPT !.dev = d, !.found = c,
                                           !.foundDead = Dead(cs, c)]
                            IN  IF NeedsOpen(cs, c)
                                THEN [r1 EXCEPT !.pc = "opening"]
                                ELSE [r1 EXCEPT !.pc = "sending", !.conn = c,
                                        !.reusedFailed = conns[c].failed]]
    /\ UNCHANGED <<file, _POOL, audit, lastCall>>

\* run_in_threadpool(self._open): one pass over the attempts, on a worker
\* thread.  A failure leaves __aenter__ as an exception, so __aexit__ is not
\* run, and run_command wraps it in CommandExecutionError
Open(p) ==
    /\ runs[p].pc = "opening"
    /\ LET dev == runs[p].dev[1]
       IN  \E outs \in [1..Len(attempts(dev)) -> OpenOutcomes] :
             LET o  == _open(dev, outs)
                 r1 == [runs[p] EXCEPT !.passes = @ + 1, !.plan = o.plan,
                                       !.log = o.log, !.names = o.names]
             IN  IF o.ok
                 THEN /\ conns' = [conns EXCEPT ![p] =
                                      NewConn(dev, o.log[Len(o.log)])]
                      /\ runs' = [runs EXCEPT ![p] = [r1 EXCEPT !.pc = "opened"]]
                 ELSE /\ conns' = conns
                      /\ runs' = [runs EXCEPT ![p] =
                            Raise(r1, "CommandExecutionError", "acquire", o.cause)]
    /\ UNCHANGED <<file, _CACHE, _CACHE_MTIME, _POOL, audit, lastCall>>

\* __aenter__ resumed on the event loop: the new connection is put in the
\* pool and returned, and run_command hands the send to a worker thread
Insert(p) ==
    /\ runs[p].pc = "opened"
    /\ ~LoopBlocked
    /\ _POOL' = PoolInsert(_POOL, runs[p].dev[1].hostname, p)
    /\ runs' = [runs EXCEPT ![p] = [@ EXCEPT !.pc = "sending", !.conn = p]]
    /\ UNCHANGED <<file, _CACHE, _CACHE_MTIME, conns, audit, lastCall>>

\* a mutant of AuditEvent: has_json is the truth value of the parse
AuditEventTruthy(user, device, command, raw_output, parsed) ==
    [user |-> user, device |-> device, command |-> command,
     raw_len |-> Len(raw_output),
     has_json |-> IF parsed = None THEN FALSE ELSE parsed[1].keys # {}]

\* the event dict built by audit.record
AuditEvent(user, device, command, raw_output, parsed) ==
    [user |-> user, device |-> device, command |-> command,
     raw_len |-> Len(raw_output), has_json |-> parsed # None]

\* a mutant of Finish: an exception of the parser is not caught
FinishParseUncaught(r, raw_output, parse_raises, a, log_outcome) ==
    IF parse_raises
    THEN [run |-> [Raise(r, "Exception", "parse", "parser")
                      EXCEPT !.raw = Some(raw_output), !.parseRaised = TRUE],
          audit |-> a]
    ELSE LET parsed == maybe_parse(r.command, raw_output)
             rec == record(a, AuditEvent(r.user.username, r.device, r.command,
                                         raw_output, parsed), log_outcome)
         IN  [run |-> [r EXCEPT !.pc = "done", !.result = "OK",
                                !.stage = "return", !.raw = Some(raw_output),
                                !.parsed = parsed, !.write = rec.write],
              audit |-> [log |-> rec.log, file |-> rec.file]]

\* run_command after the send has returned raw_output: __aexit__ without an
\* exception (no purge), the parse with its except clause (parse_raises: the
\* parser raises), audit.record, and the return of the response
Finish(r, raw_output, parse_raises, a, log_outcome) ==
    LET parsed == IF parse_raises THEN None
                  ELSE maybe_parse(r.command, raw_output)
        rec == record(a, AuditEvent(r.user.username, r.device, r.command,
                                    raw_output, parsed), log_outcome)
        r1  == [r EXCEPT !.raw = Some(raw_output), !.parsed = parsed,
                         !.parseRaised = parse_raises, !.write = rec.write]
    IN  [run |-> IF rec.raised
                 THEN Raise(r1, "Exception", "audit", "audit")
                 ELSE [r1 EXCEPT !.pc = "done", !.result = "OK",
                                 !.stage = "return"],
         audit |-> [log |-> rec.log, file |-> rec.file]]

\* what conn.send_command(command, strip_prompt=False, strip_command=False)
\* can do on connection c
SendOutcomes(c) ==
    IF ~SendCallBinds THEN {"TypeError"}
    ELSE IF ~conns[c].alive THEN {"ScrapliConnectionNotOpened"}
    ELSE DriverOutcomes \cup {"ScrapliConnectionNotOpened"}

\* run_in_threadpool(conn.send_command ...) on a worker thread, and what
\* run_command does with its result back on the event loop: on output,
\* __aexit__ without purge, parse, audit and return; on an exception,
\* __aexit__ hands _purge to a worker thread
Send(p) ==
    /\ runs[p].pc = "sending"
    /\ \E o \in SendOutcomes(runs[p].conn) :
         LET r1 == [runs[p] EXCEPT !.sends = @ + 1]
         IN  IF o = "output"
             THEN \E raw \in RawOutputs, parse_raises \in BOOLEAN,
                     log_outcome \in PipelineLogOutcomes :
                    LET f == Finish(r1, raw, parse_raises, audit, log_outcome)
                    IN  /\ runs' = [runs EXCEPT ![p] = f.run]
                        /\ audit' = f.audit
                        /\ conns' = conns
             ELSE /\ runs' = [runs EXCEPT ![p] =
                        [r1 EXCEPT !.pc = "purge_close", !.cause = o]]
                  /\ conns' = [conns EXCEPT ![runs[p].conn].failed = TRUE]
                  /\ audit' = audit
    /\ UNCHANGED <<file, _CACHE, _CACHE_MTIME, _POOL, lastCall>>

\* _purge, first half, on a worker thread: self._conn.close()
PurgeClose(p) ==
    /\ runs[p].pc = "purge_close"
    /\ conns' = [conns EXCEPT ![runs[p].conn] =
                    [@ EXCEPT !.alive = FALSE, !.closed = TRUE]]
    /\ runs' = [runs EXCEPT ![p].pc = "purge_pop"]
    /\ UNCHANGED <<file, _CACHE, _CACHE_MTIME, _POOL, audit, lastCall>>

\* a mutant of PurgePop: the command is sent a second time after the purge
PurgePopResend(p) ==
    /\ runs[p].pc = "purge_pop"
    /\ _POOL' = PoolPop(_POOL, runs[p].dev[1].hostname)
    /\ runs' = [runs EXCEPT ![p] =
                  IF @.sends < 2 THEN [@ EXCEPT !.pc = "sending"]
                  ELSE Raise(@, "CommandExecutionError", "execute", @.cause)]
    /\ UNCHANGED <<file, _CACHE, _CACHE_MTIME, conns, audit, lastCall>>

\* a mutant of PurgePop: the failed call is audited before it raises
PurgePopRecorded(p) ==
    /\ runs[p].pc = "purge_pop"
    /\ _POOL' = PoolPop(_POOL, runs[p].dev[1].hostname)
    /\ runs' = [runs EXCEPT ![p] =
                  Raise(@, "CommandExecutionError", "execute", @.cause)]
    /\ audit' = [audit EXCEPT !.log =
                    Append(@, AuditEvent(runs[p].user.username, runs[p].device,
                                         runs[p].command, <<>>, None))]
    /\ UNCHANGED <<file, _CACHE, _CACHE_MTIME, conns, lastCall>>

\* _purge, second half: _POOL.pop(self._key, None); then __aexit__ returns
\* False and run_command raises CommandExecutionError
PurgePop(p) ==
    /\ runs[p].pc = "purge_pop"
    /\ _POOL' = PoolPop(_POOL, runs[p].dev[1].hostname)
    /\ runs' = [runs EXCEPT ![p] =
                  Raise(@, "CommandExecutionError", "execute", @.cause)]
    /\ UNCHANGED <<file, _CACHE, _CACHE_MTIME, conns, audit, lastCall>>

\* before: the cached table as the call found it; read: the call read the file
NoCall == [op |-> "", user |-> NoUser, hostname |-> "", ok |-> FALSE,
           got |-> None, listed |-> {}, before |-> EmptyTable, read |-> FALSE]

InitPipeline ==
    /\ _CACHE = EmptyTable
    /\ _CACHE_MTIME = 0
    /\ _POOL = [h \in Hostnames |-> 0]
    /\ conns = [c \in Procs |-> NoConn]
    /\ runs = [p \in Procs |-> IdleRun]
    /\ audit = [log |-> <<>>, file |-> <<>>]
    /\ lastCall = NoCall

Init ==
    /\ file \in {[mtime |-> 1, body |-> b] : b \in Bodies}
    /\ InitPipeline

Next ==
    \/ \E p \in Procs, device \in Hostnames, command \in Commands, user \in Users,
          dropped \in BOOLEAN :
          Enter(p, device, command, user, dropped)
    \/ \E p \in Procs : Open(p)
    \/ \E p \in Procs : Insert(p)
    \/ \E p \in Procs : Send(p)
    \/ \E p \in Procs : PurgeClose(p)
    \/ \E p \in Procs : PurgePop(p)

Spec == Init /\ [][Next]_vars

---------------------------------------------------------------------------
(* The inventory store on its own: direct calls of get_device and           *)
(* list_devices while the backing file is rewritten                         *)

\* number of times the backing file is rewritten
MaxWrites == 2

\* the lab router, also tagged for the operations team
DevR1Ops == Entry("r1", "10.0.0.1", PlatIOSXE, Some("netops"), Some("pw1"),
                  {"lab", "ops"}, None)
\* a firewall of the operations team
DevR3Ops == Entry("r3", "10.0.0.3", PlatASA, Some("netops"), Some("pw3"),
                  {"ops"}, None)

BodyOps == <<DevR1Ops, DevR2, DevR3Ops>>
\* a file with an empty list of devices
BodyEmpty == <<>>

BodiesInv == {BodyLab, BodyConsole, BodyMalformed, BodyOps, BodyEmpty}

UserOps == User("bob", {"viewer"}, {"ops", "dc"})
UserNobody == User("eve", {}, {})

UsersInv == {UserAdmin, UserLab, UserOps, UserNobody}

\* a call of get_device(hostname, for_user=user)
GetDevice(hostname, user) ==
    /\ LET ld == _load_yaml(file, _CACHE, _CACHE_MTIME)
       IN  /\ _CACHE' = ld.cache
           /\ _CACHE_MTIME' = ld.mtime
           /\ lastCall' =
                [op |-> "get_device", user |-> user, hostname |-> hostname,
                 ok |-> ld.ok,
                 got |-> IF ld.ok THEN get_device(ld.cache, hostname, user)
                         ELSE None,
                 listed |-> {}, before |-> _CACHE, read |-> ld.read]
    /\ UNCHANGED <<file, _POOL, conns, runs, audit>>

\* a call of list_devices(user=user), as made by /show_inventory
ShowInventory(user) ==
    /\ LET ld == _load_yaml(file, _CACHE, _CACHE_MTIME)
       IN  /\ _CACHE' = ld.cache
           /\ _CACHE_MTIME' = ld.mtime
           /\ lastCall' =
                [op |-> "list_devices", user |-> user, hostname |-> "",
                 ok |-> ld.ok, got |-> None,
                 listed |-> IF ld.ok THEN list_devices(ld.cache, user) ELSE {},
                 before |-> _CACHE, read |-> ld.read]
    /\ UNCHANGED <<file, _POOL, conns, runs, audit>>

\* the operator rewrites the inventory file
WriteFile(body) ==
    /\ file.mtime <= MaxWrites
    /\ file' = [mtime |-> file.mtime + 1, body |-> body]
    /\ UNCHANGED <<_CACHE, _CACHE_MTIME, _POOL, conns, runs, audit, lastCall>>

InitInv ==
    /\ file \in {[mtime |-> 1, body |-> b] : b \in BodiesInv}
    /\ InitPipeline

NextInv ==
    \/ \E hostname \in Hostnames, user \in UsersInv : GetDevice(hostname, user)
    \/ \E user \in UsersInv : ShowInventory(user)
    \/ \E body \in BodiesInv : WriteFile(body)

SpecInv == InitInv /\ [][NextInv]_vars

---------------------------------------------------------------------------
(* _open on its own: one open of an arbitrary Device record                 *)

Platforms == {PlatIOS, PlatIOSUpper, PlatIOSXE, PlatIOSXR, PlatNXOS, PlatASA}

DeviceSpace ==
    {Entry("r1", "10.0.0.1", pl, u, pw, {"lab"}, po) :
        pl \in Platforms, u \in {None, Some(""), Some("netops")},
        pw \in {None, Some("pw1")}, po \in {None, Some(2222)}}

InitOpen ==
    /\ file = [mtime |-> 1, body |-> BodyLab]
    /\ _CACHE = EmptyTable
    /\ _CACHE_MTIME = 0
    /\ _POOL = [h \in Hostnames |-> 0]
    /\ conns = [c \in Procs |-> NoConn]
    /\ \E dev \in DeviceSpace :
         runs = [p \in Procs |->
                   IF p = 1
                   THEN [IdleRun EXCEPT !.pc = "opening", !.device = dev.hostname,
                                        !.command = CmdShow, !.user = UserAdmin,
                                        !.dev = Some(dev)]
                   ELSE IdleRun]
    /\ audit = [log |-> <<>>, file |-> <<>>]
    /\ lastCall = NoCall

NextOpen == \E p \in Procs : Open(p)

SpecOpen == InitOpen /\ [][NextOpen]_vars

---------------------------------------------------------------------------
(* run_command after the send: a call whose send has returned an output      *)

\* the SSH attempt that opened the session of the call
SentAttempt == Tried(attempts(DevR1)[1], "ok")

\* the call holds a session on r1 and the raw output of its command
RunSent(command, user, raw_output) ==
    [IdleRun EXCEPT !.pc = "sent", !.device = DevR1.hostname,
                    !.command = command, !.user = user, !.dev = Some(DevR1),
                    !.conn = 1, !.passes = 1, !.plan = attempts(DevR1),
                    !.log = <<SentAttempt>>, !.sends = 1,
                    !.raw = Some(raw_output)]

\* run_command resumed on the event loop with the result of the send
Return(p) ==
    /\ runs[p].pc = "sent"
    /\ \E parse_raises \in BOOLEAN, log_outcome \in PipelineLogOutcomes :
         LET f == Finish(runs[p], runs[p].raw[1], parse_raises, audit,
                         log_outcome)
         IN  /\ runs' = [runs EXCEPT ![p] = f.run]
             /\ audit' = f.audit
    /\ UNCHANGED <<file, _CACHE, _CACHE_MTIME, _POOL, conns, lastCall>>

InitSent ==
    /\ file = [mtime |-> 1, body |-> BodyLab]
    /\ _CACHE = LoadEntries(BodyLab, 1, EmptyTable).table
    /\ _CACHE_MTIME = 1
    /\ _POOL = [h \in Hostnames |-> IF h = DevR1.hostname THEN 1 ELSE 0]
    /\ conns = [c \in Procs |->
                  IF c = 1 THEN NewConn(DevR1, SentAttempt) ELSE NoConn]
    /\ \E command \in CommandsSent, user \in Users, raw_output \in RawTexts :
         runs = [p \in Procs |->
                   IF p = 1 THEN RunSent(command, user, raw_output)
                   ELSE IdleRun]
    /\ audit = [log |-> <<>>, file |-> <<>>]
    /\ lastCall = NoCall

NextSent == \E p \in Procs : Return(p)

SpecSent == InitSent /\ [][NextSent]_vars

---------------------------------------------------------------------------
(* The pool after a send that returned: one call holds a session whose send   *)
(* has returned, and further calls are made                                   *)

InitPooled ==
    /\ file = [mtime |-> 1, body |-> BodyLab]
    /\ _CACHE = LoadEntries(BodyLab, 1, EmptyTable).table
    /\ _CACHE_MTIME = 1
    /\ _POOL = [h \in Hostnames |-> IF h = DevR1.hostname THEN 1 ELSE 0]
    /\ conns = [c \in Procs |->
                  IF c = 1 THEN NewConn(DevR1, SentAttempt) ELSE NoConn]
    /\ runs = [p \in Procs |->
                 IF p = 1 THEN RunSent(CmdShow, UserAdmin, LineBanner)
                 ELSE IdleRun]
    /\ audit = [log |-> <<>>, file |-> <<>>]
    /\ lastCall = NoCall

NextPooled ==
    \/ \E p \in Procs : Return(p)
    \/ \E p \in Procs, device \in Hostnames, command \in Commands, user \in Users,
          dropped \in BOOLEAN :
          Enter(p, device, command, user, dropped)
    \/ \E p \in Procs : Open(p)
    \/ \E p \in Procs : Insert(p)
    \/ \E p \in Procs : Send(p)
    \/ \E p \in Procs : PurgeClose(p)
    \/ \E p \in Procs : PurgePop(p)

SpecPooled == InitPooled /\ [][NextPooled]_vars

---------------------------------------------------------------------------
(* audit.record on its own: direct calls, also with a log sink that fails    *)

\* number of calls of audit.record
MaxRecords == 2

\* the events the calls are made for
RecordEvents ==
    {AuditEvent(user, DevR1.hostname, command, raw_output, parsed) :
        user \in {UserAdmin.username, UserLab.username},
        command \in {CmdShow, CmdBrief},
        raw_output \in {LineBanner, LineHeader},
        parsed \in {None, Some(EmptyStructure)}}

\* a call of audit.record(user=, device=, command=, raw_output=, parsed=)
Record(event, log_outcome) ==
    /\ LET rec   == record(audit, event, log_outcome)
           calls == IF lastCall.op = "record" THEN lastCall.calls ELSE 0
       IN  /\ calls < MaxRecords
           /\ audit' = [log |-> rec.log, file |-> rec.file]
           /\ lastCall' = [op |-> "record", event |-> event,
                           log_outcome |-> log_outcome,
                           raised |-> rec.raised, write |-> rec.write,
                           calls |-> calls + 1]
    /\ UNCHANGED <<file, _CACHE, _CACHE_MTIME, _POOL, conns, runs>>

InitAudit ==
    /\ file = [mtime |-> 1, body |-> BodyLab]
    /\ InitPipeline

NextAudit ==
    \E event \in RecordEvents, log_outcome \in LogOutcomes :
        Record(event, log_outcome)

SpecAudit == InitAudit /\ [][NextAudit]_vars

---------------------------------------------------------------------------
(* _validate_command on its own: one call per command text                   *)

\* command texts: blanks, a first word in some case, what follows it, blanks
CommandSpace ==
    {lead \o word \o rest \o trail :
        lead \in {<<>>, <<" ">>, <<"\t", " ">>},
        word \in { <<"s","h","o","w">>, <<"S","h","O","W">>, <<"P","i","n","g">>,
                   <<"t","r","a","c","e","r","o","u","t","e">>,
                   <<"s","h","o">>, <<"c","o","n","f">>, <<"r","e","l","o","a","d">> },
        rest \in { <<>>, <<" ","v","e","r">>, <<"f","o","o">>, <<"_","x">>,
                   <<"1">>, <<"-","r","u","n">>, <<" ","|"," ","x">>,
                   <<"\n","c","o","n","f"," ","t">> },
        trail \in {<<>>, <<" ">>}}

\* a call of _validate_command(command)
Validate(command) ==
    /\ lastCall' = [op |-> "validate", command |-> command,
                    accepted |-> _validate_command(command)]
    /\ UNCHANGED <<file, _CACHE, _CACHE_MTIME, _POOL, conns, runs, audit>>

InitValidate ==
    /\ file = [mtime |-> 1, body |-> BodyLab]
    /\ InitPipeline

NextValidate == \E command \in CommandSpace : Validate(command)

SpecValidate == InitValidate /\ [][NextValidate]_vars

---------------------------------------------------------------------------
(* run_command while the inventory file is rewritten                         *)

\* the lab router after a move: new address, port and password
DevR1Moved == Entry("r1", "10.0.9.1", PlatIOSXE, Some("netops"), Some("pw9"),
                    {"lab"}, Some(2222))

\* the contents the file is rewritten with
BodiesReload == {BodyLab, <<DevR1Moved, DevR2>>}

NextReload ==
    \/ Next
    \/ \E body \in BodiesReload : WriteFile(body)

SpecReload == Init /\ [][NextReload]_vars

---------------------------------------------------------------------------
(* The claims.  The definitions below restate the specification's words;    *)
(* they do not use the operators that model the code.                       *)

Started(p) == runs[p].pc # "idle"

\* the read-only verbs of the allow-list
AllowedVerbs ==
    { <<"s","h","o","w">>, <<"p","i","n","g">>,
      <<"t","r","a","c","e","r","o","u","t","e">> }

\* the command, trimmed, begins case-insensitively with an allow-listed verb
BeginsWithAllowedVerb(command) ==
    LET t == Strip(command)
    IN  \E v \in AllowedVerbs :
          /\ Len(v) <= Len(t)
          /\ \A i \in 1..Len(v) : LowerChar(t[i]) = v[i]

\* the commands a Run can carry that begin with an allow-listed verb
AllowListedCommands == {c \in Commands : BeginsWithAllowedVerb(c)}

\* the command of the run begins with an allow-listed verb
AllowListed(p) == runs[p].command \in AllowListedCommands

\* invariant (b) of the data model: visibility of a record to a caller
VisibleTo(d, user) ==
    "admin" \in user.roles \/ d.tags \cap user.allowed_tags # {}

\* the hostname is that of a record of the loaded inventory
InInventory(hostname) == hostname \in DOMAIN _CACHE

\* the device of the run resolves for its caller
Resolves(p) ==
    /\ InInventory(runs[p].device)
    /\ VisibleTo(_CACHE[runs[p].device], runs[p].user)

\* the run has done network I/O: an open was started, a transport attempt
\* made, a session acquired or a command sent
NetworkIO(p) ==
    \/ runs[p].passes > 0
    \/ runs[p].log # <<>>
    \/ runs[p].conn # 0
    \/ runs[p].sends > 0
    \/ conns[p].made

\* C1: a Run whose device does not resolve for its caller, or whose command
\* does not begin (trimmed, case-insensitively) with an allow-listed verb,
\* fails without any network I/O: every connection attempt and every send
\* belongs to a Run whose device resolved and whose command passed
C1_NoIOUnlessResolvedAndAllowed ==
    \A p \in Procs :
        /\ NetworkIO(p) =>
              Resolves(p) /\ AllowListed(p)
        /\ Started(p) /\ ~(Resolves(p) /\ AllowListed(p))
              => Done(p) /\ runs[p].result # "OK" /\ ~NetworkIO(p)

\* a command was sent by one Run, and another Run on a device that resolved
\* was rejected for its command
C1_Witness ==
    \E p, q \in Procs :
        /\ runs[p].sends > 0 /\ runs[p].log # <<>>
        /\ Done(q) /\ Resolves(q) /\ ~AllowListed(q)
        /\ runs[q].result = "CommandExecutionError"

\* the connections to a hostname that are open
OpenConns(h) == {c \in Procs : conns[c].made /\ conns[c].host = h /\ conns[c].alive}

\* C2: at most one connection to a hostname is open at any time, whatever
\* the interleaving of concurrent Runs for it
C2_AtMostOneOpenConnection ==
    \A h \in Hostnames : Cardinality(OpenConns(h)) <= 1

\* C3: ListDevices(C) contains D, and Resolve(D.hostname, C) returns D, iff
\* C has the admin role or D.tags and C.tags intersect
C3_VisibleIffAdminOrTag ==
    /\ lastCall.op = "list_devices" /\ lastCall.ok =>
          /\ \A h \in DOMAIN _CACHE :
                (\E r \in lastCall.listed : r.hostname = h)
                    <=> VisibleTo(_CACHE[h], lastCall.user)
          /\ \A r \in lastCall.listed :
                /\ r.hostname \in DOMAIN _CACHE
                /\ r.tags = _CACHE[r.hostname].tags
                /\ r.host = _CACHE[r.hostname].host
    /\ lastCall.op = "get_device" /\ lastCall.ok
            /\ lastCall.hostname \in DOMAIN _CACHE =>
          /\ lastCall.got = Some(_CACHE[lastCall.hostname])
                <=> VisibleTo(_CACHE[lastCall.hostname], lastCall.user)
          /\ lastCall.got # None
                => lastCall.got = Some(_CACHE[lastCall.hostname])

\* a caller without the admin role was listed one device and not another
C3_Witness ==
    /\ lastCall.op = "list_devices" /\ lastCall.ok
    /\ "admin" \notin lastCall.user.roles
    /\ lastCall.listed # {}
    /\ \E h \in DOMAIN _CACHE : \A r \in lastCall.listed : r.hostname # h

\* what a caller observes of a Run, and what the Run did
Outcome(p) ==
    [result |-> runs[p].result, stage |-> runs[p].stage,
     cause |-> runs[p].cause, raw |-> runs[p].raw, io |-> NetworkIO(p)]

NotFoundOutcome ==
    [result |-> "DeviceNotFoundError", stage |-> "resolve", cause |-> "",
     raw |-> None, io |-> FALSE]

Hidden(p) ==
    /\ InInventory(runs[p].device)
    /\ ~VisibleTo(_CACHE[runs[p].device], runs[p].user)

Absent(p) == ~InInventory(runs[p].device)

Loaded == DOMAIN _CACHE # {}

\* C4 (state part): with an inventory loaded, a Run on a hidden hostname and
\* a Run on an absent hostname end in the same DeviceNotFound outcome,
\* whatever the command, without network I/O
C4_SameOutcome ==
    \A p \in Procs :
        Started(p) /\ Loaded /\ (Hidden(p) \/ Absent(p))
            => Done(p) /\ Outcome(p) = NotFoundOutcome

\* C4 (step part): the step of such a Run leaves the session pool, the
\* connections and the audit sinks as they were
C4_NoEffect ==
    \A p \in Procs :
        (~Started(p) /\ Started(p)' /\ Loaded' /\ (Hidden(p)' \/ Absent(p)'))
            => /\ _POOL' = _POOL
               /\ conns' = conns
               /\ audit' = audit

\* C4: Run does not let a caller tell a hidden device from a missing one
C4_HiddenIsMissing == []C4_SameOutcome /\ [][C4_NoEffect]_vars

\* one caller ran an allow-listed command on a hidden device and a rejected
\* command on an absent one
C4_Witness ==
    \E p, q \in Procs :
        /\ Done(p) /\ Hidden(p) /\ BeginsWithAllowedVerb(runs[p].command)
        /\ Done(q) /\ Loaded /\ Absent(q)
        /\ ~AllowListed(q)
        /\ runs[p].user = runs[q].user
        /\ Outcome(p) = Outcome(q)

\* the hostname of the device a Run resolved
HostOf(p) == runs[p].dev[1].hostname

\* the Run got as far as acquiring a session
Acquiring(p) == runs[p].dev # None /\ runs[p].stage \notin {"resolve", "validate"}

\* failures of issuing a command that come from the device or the transport
DeviceFailures == {"ScrapliTimeout", "ScrapliConnectionNotOpened"}

\* C5: when issuing a command on an acquired session fails, the release
\* closes the session and removes it from the pool, and no Acquire made after
\* the failure, not even one made before the purge completes, returns it
C5_FailedSessionPurgedNeverReturned ==
    \A p \in Procs :
        /\ Done(p) /\ runs[p].stage = "execute" =>
              /\ conns[runs[p].conn].closed
              /\ _POOL[HostOf(p)] # runs[p].conn
        /\ ~runs[p].reusedFailed

C7_FailedAcquirePurges ==
    [][ \A p \in Procs :
          (runs[p].pc = "opening" /\ Done(p)') =>
              /\ runs'[p].result = "CommandExecutionError"
              /\ ~Dead(conns', _POOL'[HostOf(p)]) ]_vars

\* C8 (state part): an Acquire that finds the pooled session dead makes one
\* pass over the attempt list and returns a session it has just opened, never
\* the one that failed the liveness check, or fails
C8_OnePassNeverStale ==
    \A p \in Procs :
        runs[p].foundDead =>
            /\ runs[p].passes <= 1
            /\ runs[p].pc # "opening" => runs[p].passes = 1
            /\ runs[p].conn # runs[p].found
            /\ runs[p].conn # 0 => runs[p].conn = p /\ conns[p].made
            /\ Len(runs[p].log) <= Len(runs[p].plan)
            /\ \A i \in DOMAIN runs[p].log :
                  /\ runs[p].log[i].transport = runs[p].plan[i].transport
                  /\ runs[p].log[i].port = runs[p].plan[i].port
            /\ Done(p) /\ runs[p].conn = 0 =>
                  /\ runs[p].result = "CommandExecutionError"
                  /\ runs[p].stage = "acquire"

\* C8 (step part): the session returned replaces the entry of the hostname
C8_Replaces ==
    \A p \in Procs :
        (runs[p].foundDead /\ runs[p].conn = 0 /\ runs'[p].conn # 0) =>
            /\ _POOL'[HostOf(p)] = runs'[p].conn
            /\ _POOL'[HostOf(p)] # runs[p].found

\* C8: a failed liveness check triggers exactly one fresh open
C8_OneFreshOpen == []C8_OnePassNeverStale /\ [][C8_Replaces]_vars

\* a Run found the pooled session dead, opened a connection and the pool
\* now holds that one
C8_Witness ==
    \E p \in Procs :
        /\ runs[p].foundDead /\ runs[p].found # 0
        /\ runs[p].conn = p
        /\ _POOL[HostOf(p)] = p

\* the device has neither username nor password
NoCredentials(d) == d.username = None /\ d.password = None

\* the configured port, else the default of the transport
ConfiguredOr(d, default) == IF d.port = None THEN default ELSE d.port[1]

\* the transport ordering policy of the specification
PolicyAttempts(d) ==
    IF NoCredentials(d)
    THEN <<[transport |-> "telnet", port |-> ConfiguredOr(d, 23)],
           [transport |-> "ssh", port |-> ConfiguredOr(d, 22)]>>
    ELSE IF Lower(d.platform) = <<"i","o","s">>
    THEN <<[transport |-> "ssh", port |-> ConfiguredOr(d, 22)],
           [transport |-> "telnet", port |-> ConfiguredOr(d, 23)]>>
    ELSE <<[transport |-> "ssh", port |-> ConfiguredOr(d, 22)]>>

KindAndPort(a) == [transport |-> TransportKind(a.transport), port |-> a.port]

HeldWithoutCredentials(hostname, user) ==
    \E i \in DOMAIN file.body :
        /\ file.body[i].hostname = hostname
        /\ NoCredentials(file.body[i])
        /\ VisibleTo(file.body[i], user)

\* the transport layer rejected every SSH attempt and accepted every Telnet
\* attempt of the Run
SSHRejectedTelnetAccepted(p) ==
    \A i \in DOMAIN runs[p].log :
        (TransportKind(runs[p].log[i].transport) = "telnet")
            <=> (runs[p].log[i].outcome = "ok")

\* C10: a Run of an allow-listed command on a device held in the inventory
\* without credentials and visible to the caller, with SSH rejected and Telnet
\* accepted, succeeds over a Telnet session
C10_FailoverToTelnet ==
    \A p \in Procs :
        ( /\ Done(p)
          /\ HeldWithoutCredentials(runs[p].device, runs[p].user)
          /\ BeginsWithAllowedVerb(runs[p].command)
          /\ SSHRejectedTelnetAccepted(p)
          /\ runs[p].cause \notin DeviceFailures )
        => /\ runs[p].result = "OK"
           /\ runs[p].conn # 0
           /\ conns[runs[p].conn].transport = "telnet"

\* the failure kinds of Run: DeviceNotFound, and the one class that stands for
\* CommandRejected and ExecutionFailed
TaxonomyFailures == {"DeviceNotFoundError", "CommandExecutionError"}

\* C11: every Run that does not return a CommandResult fails with
\* DeviceNotFound, CommandRejected or ExecutionFailed, also when the inventory
\* reload made by Resolve fails or the open fails for another reason than
\* authentication or timeout
C11_ClosedTaxonomy ==
    \A p \in Procs :
        Done(p) /\ runs[p].result # "OK" => runs[p].result \in TaxonomyFailures

\* C12: a Run rejected for its command fails with a kind that no Run failing
\* for a transport or device-side reason fails with
C12_RejectedIsDistinct ==
    \A p, q \in Procs :
        ( /\ Done(p) /\ runs[p].stage = "validate"
          /\ Done(q) /\ runs[q].stage \in {"acquire", "execute"} )
        => runs[p].result # runs[q].result

\* the Run got past authorization and validation and has ended
PastValidation(p) ==
    Done(p) /\ runs[p].stage \in {"acquire", "execute", "parse", "audit", "return"}

\* C13: after every Run that got past authorization and validation, ended by
\* success or by ExecutionFailed, exactly one AuditEvent of that Run is in the
\* durable sink
C13_OneDurableEventPerRun ==
    Len(audit.file) = Cardinality({p \in Procs : PastValidation(p)})

\* the durable write of the Run was attempted and failed
WriteFailed(p) == runs[p].write \notin {"none", "ok"}

\* C14: a failure of the durable audit write does not reach the caller: the
\* step in which it fails ends the Run with the result built from the raw
\* output it held, and leaves the structured-log emission in place
C14_WriteFailureNeverReachesCaller ==
    [][ \A p \in Procs :
          (runs[p].pc = "sent" /\ WriteFailed(p)') =>
              /\ Done(p)' /\ runs'[p].result = "OK"
              /\ runs'[p].raw = runs[p].raw
              /\ Len(audit'.log) = Len(audit.log) + 1 ]_vars

\* a Run whose durable write failed has returned its result
C14_Witness ==
    \E p \in Procs :
        /\ WriteFailed(p) /\ Done(p) /\ runs[p].result = "OK"
        /\ runs[p].raw # None /\ runs[p].parsed # None

C16_ParsingNeverFailsRun ==
    [][ \A p \in Procs :
          (runs[p].pc = "sent" /\ runs'[p].pc # "sent") =>
              /\ Done(p)' /\ runs'[p].result = "OK"
              /\ runs'[p].raw = runs[p].raw
              /\ runs'[p].parseRaised => runs'[p].parsed = None ]_vars

\* the parser raised on the output of an interface-brief command and the Run
\* returned the raw output without a parsed field
C16_Witness ==
    \E p \in Procs :
        /\ Done(p) /\ runs[p].parseRaised /\ runs[p].result = "OK"
        /\ runs[p].command = CmdBrief
        /\ runs[p].raw # None /\ runs[p].raw # Some(<<>>)
        /\ runs[p].parsed = None

\* C19: a Run of an allow-listed command on a device visible to its caller,
\* whose connection was accepted and on which the device did not fail,
\* succeeds and returns the output of the device
C19_EndToEndSuccess ==
    \A p \in Procs :
        ( /\ Done(p) /\ Resolves(p) /\ AllowListed(p)
          /\ runs[p].conn # 0 /\ conns[runs[p].conn].made
          /\ runs[p].cause \notin DeviceFailures )
        => runs[p].result = "OK" /\ runs[p].raw # None

RECURSIVE Fields(_)
\* the white-space-delimited fields of a line
Fields(s) ==
    LET t == SubSeq(s, RunLength(s, Whitespace) + 1, Len(s))
    IN  IF t = <<>> THEN <<>>
        ELSE LET n == RunLength(t, Range(t) \ Whitespace)
             IN  <<SubSeq(t, 1, n)>> \o Fields(SubSeq(t, n + 1, Len(t)))

\* the command, trimmed and lower-cased, begins with the interface-brief verb
IsInterfaceBrief(command) ==
    LET t == Lower(Strip(command))
        v == <<"s","h","o","w"," ","i","p"," ","i","n","t"," ","b","r","i","e","f">>
    IN  Len(v) <= Len(t) /\ \A i \in 1..Len(v) : t[i] = v[i]

\* a line that gives a record: six fields or more
HasSixFields(l) == Len(Fields(l)) >= 6

\* the record is the one of the line: its fields in order, the sixth being or
\* beginning with the sixth field of the line
RecordOfLine(e, l) ==
    LET f == Fields(l)
    IN  /\ e.interface = f[1] /\ e.ip_address = f[2] /\ e.ok = f[3]
        /\ e.method = f[4] /\ e.status = f[5]
        /\ Fields(e.protocol) # <<>> /\ Fields(e.protocol)[1] = f[6]

\* the structure the reference parser is to give for a raw output
ReferenceParse(parsed, raw) ==
    LET lines == splitlines(raw)
        hdrs  == {i \in 1..Len(lines) : _HEADER_RE(lines[i])}
    IN  IF hdrs = {}
        THEN parsed.keys = {} /\ parsed.interfaces = <<>>
        ELSE LET h    == CHOOSE k \in hdrs : \A j \in hdrs : k <= j
                 rows == SelectSeq(SubSeq(lines, h + 1, Len(lines)), HasSixFields)
             IN  /\ Len(parsed.interfaces) = Len(rows)
                 /\ \A i \in 1..Len(rows) :
                       RecordOfLine(parsed.interfaces[i], rows[i])

\* C20: for an interface-brief command the parsed output is empty when the
\* raw output has no header line, and else holds one six-field record, in
\* order, for each line after the first header line that has six fields or
\* more, lines with fewer fields being skipped; for any other command there
\* is no parsed output
C20_ReferenceParser ==
    \A p \in Procs :
        Done(p) /\ runs[p].result = "OK" /\ ~runs[p].parseRaised =>
            IF IsInterfaceBrief(runs[p].command)
            THEN /\ runs[p].parsed # None
                 /\ ReferenceParse(runs[p].parsed[1], runs[p].raw[1])
            ELSE runs[p].parsed = None

\* the last call was an inventory access
InventoryCall == lastCall.op \in {"get_device", "list_devices"}

\* C17: once a load has succeeded, a reload of a malformed file is rejected
\* as a whole and the table loaded last keeps being served: no later access
\* surfaces a load error
C17_ReloadFailClosed ==
    InventoryCall /\ Loaded => lastCall.ok

\* the complete table of an inventory file
TableOf(body) ==
    [h \in {body[i].hostname : i \in DOMAIN body} |->
        body[CHOOSE i \in DOMAIN body : body[i].hostname = h]]

\* the public view of the records of a table that a caller sees
VisibleOf(table, user) ==
    {[hostname |-> table[h].hostname, host |-> table[h].host,
      platform |-> table[h].platform, tags |-> table[h].tags] :
        h \in {k \in DOMAIN table : VisibleTo(table[k], user)}}

\* C18 (state part): an access that answers does so from the complete table
\* it found, if that was not the empty table of the start, or from the
\* complete table of a file
C18_ReaderSeesWholeTable ==
    InventoryCall /\ lastCall.ok =>
        \E table \in {t \in {lastCall.before} : t # EmptyTable}
                        \cup {TableOf(b) : b \in BodiesInv} :
            /\ lastCall.op = "list_devices" =>
                  lastCall.listed = VisibleOf(table, lastCall.user)
            /\ lastCall.op = "get_device" /\ lastCall.got # None =>
                  /\ lastCall.hostname \in DOMAIN table
                  /\ lastCall.got = Some(table[lastCall.hostname])

\* C18 (step part): a step leaves the cached table as it is or replaces it by
\* the complete table of the file
C18_WholeReplacement ==
    _CACHE' = _CACHE \/ _CACHE' = TableOf(file.body)

PublicFields == {"hostname", "host", "platform", "tags"}
CredentialFields == {"username", "password"}

\* C21: no record returned by a listing has a credential field: each exposes
\* hostname, address, platform and tags only, whoever the caller and whatever
\* the inventory
C21_NoCredentialsListed ==
    lastCall.op = "list_devices" =>
        \A rec \in lastCall.listed :
            /\ DOMAIN rec = PublicFields
            /\ DOMAIN rec \cap CredentialFields = {}

\* a listing returned the records of two devices that have credentials
C21_Witness ==
    /\ lastCall.op = "list_devices" /\ lastCall.ok
    /\ Cardinality(lastCall.listed) >= 2
    /\ \A rec \in lastCall.listed :
          /\ rec.hostname \in DOMAIN _CACHE
          /\ _CACHE[rec.hostname].password # None

\* the failures of an attempt after which the next transport is tried
AttemptFailedKinds == {"ScrapliAuthenticationFailed", "ScrapliTimeout"}

\* the run has made its open, and the platform had a driver
MadeOpen(p) == runs[p].passes > 0 /\ runs[p].cause # "Unsupported platform"

\* C22: within one open, every attempt that was followed by another had failed
\* with an authentication failure or a timeout; an attempt that failed so is
\* followed by the next one of the list while there is one; an attempt that
\* failed otherwise is the last one made and fails the open; the attempt that
\* succeeded is the last one made, and the open yields one connection if an
\* attempt succeeded and none otherwise
C22_FailoverWithinOpen ==
    \A p \in Procs :
        MadeOpen(p) =>
            LET log  == runs[p].log
                last == log[Len(log)].outcome
            IN  /\ log # <<>> /\ Len(log) <= Len(runs[p].plan)
                /\ \A i \in 1..(Len(log) - 1) :
                      log[i].outcome \in AttemptFailedKinds
                /\ last \in AttemptFailedKinds => Len(log) = Len(runs[p].plan)
                /\ last \notin AttemptFailedKinds \cup {"ok"} =>
                      /\ Done(p) /\ runs[p].stage = "acquire"
                      /\ runs[p].cause = last
                /\ last = "ok" <=> conns[p].made
                /\ last # "ok" => Done(p) /\ runs[p].stage = "acquire"
                /\ runs[p].passes = 1

\* an open went on to Telnet after an SSH timeout and got its connection there
C22_Witness ==
    \E p \in Procs :
        /\ MadeOpen(p)
        /\ Len(runs[p].log) = 2
        /\ runs[p].log[1].outcome = "ScrapliTimeout"
        /\ runs[p].log[2].outcome = "ok"
        /\ conns[p].made

\* every attempt of the list was made and failed with an authentication
\* failure or a timeout
Exhausted(p) ==
    /\ MadeOpen(p)
    /\ Len(runs[p].log) = Len(runs[p].plan)
    /\ \A i \in DOMAIN runs[p].log : runs[p].log[i].outcome \in AttemptFailedKinds

\* C23: when every attempt of an open has failed with an authentication
\* failure or a timeout, the acquisition fails with an error that names the
\* device and carries the cause of the last attempt made, and no session of
\* the run is in the pool
C23_ExhaustedNamesLastCause ==
    \A p \in Procs :
        Exhausted(p) =>
            /\ Done(p) /\ runs[p].stage = "acquire"
            /\ runs[p].result = "CommandExecutionError"
            /\ runs[p].names = runs[p].dev[1].host
            /\ runs[p].cause = runs[p].log[Len(runs[p].log)].outcome
            /\ ~conns[p].made
            /\ \A h \in Hostnames : _POOL[h] # p

\* an open was exhausted by an authentication failure followed by a timeout
C23_Witness ==
    \E p \in Procs :
        /\ Exhausted(p)
        /\ Len(runs[p].log) = 2
        /\ runs[p].log[1].outcome = "ScrapliAuthenticationFailed"
        /\ runs[p].log[2].outcome = "ScrapliTimeout"
        /\ runs[p].cause = "ScrapliTimeout"

\* the first word of a text: its longest prefix of letters, digits and "_"
LeadingWord(t) ==
    LET n == CHOOSE k \in 0..Len(t) :
                 /\ \A i \in 1..k : t[i] \in WordChars
                 /\ k = Len(t) \/ t[k + 1] \notin WordChars
    IN  SubSeq(t, 1, n)

\* the verb a command text leads with: the first word of the trimmed text, in
\* lower case
LeadingVerb(command) ==
    LET w == LeadingWord(Strip(command))
    IN  [i \in 1..Len(w) |-> LowerChar(w[i])]

\* C24: a command is accepted iff the first word of the trimmed text is, up to
\* case, one of show, ping, traceroute; the verdict is a function of that
\* word alone, so what follows the verb does not change it, and a first word
\* that only has a verb as its prefix is rejected
C24_VerdictByLeadingVerb ==
    lastCall.op = "validate" =>
        (lastCall.accepted <=> LeadingVerb(lastCall.command) \in AllowedVerbs)

\* a command whose first word extends a verb was rejected
C24_Witness ==
    /\ lastCall.op = "validate"
    /\ ~lastCall.accepted
    /\ BeginsWithAllowedVerb(lastCall.command)
    /\ LeadingVerb(lastCall.command) = <<"s","h","o","w","f","o","o">>

\* the commands a Run can carry that pass validation
ValidCommands == {c \in Commands : LeadingVerb(c) \in AllowedVerbs}

\* the steps after the execution have left a trace on the run: an output was
\* captured, a parse made or an audit record written
LaterSteps(p) ==
    \/ runs[p].raw # None
    \/ runs[p].parsed # None
    \/ runs[p].parseRaised
    \/ runs[p].write # "none"

\* C25: the steps of a Run come in the order Resolve, validate, Acquire,
\* execute, parse, audit, return, and a failed step ends the Run: a Run whose
\* device does not resolve fails at Resolve whatever its command; a Run whose
\* command is not valid fails at validation before any connection is opened;
\* a Run that got no session sends nothing; a Run that failed has parsed and
\* audited nothing; the audit log holds only the events of Runs that returned
C25_StepsShortCircuit ==
    \A p \in Procs :
        Started(p) =>
            /\ ~Resolves(p) =>
                  /\ Done(p) /\ runs[p].stage = "resolve"
                  /\ runs[p].result \in {"DeviceNotFoundError", "InventoryLoadError"}
                  /\ ~NetworkIO(p)
            /\ Resolves(p) /\ runs[p].command \notin ValidCommands =>
                  /\ Done(p) /\ runs[p].stage = "validate"
                  /\ runs[p].result = "CommandExecutionError"
                  /\ ~NetworkIO(p)
            /\ runs[p].sends > 0 => runs[p].conn # 0
            /\ Done(p) /\ runs[p].conn = 0 => runs[p].sends = 0
            /\ runs[p].sends <= 1
            /\ Done(p) /\ runs[p].result # "OK" => ~LaterSteps(p)
            /\ runs[p].result = "OK" => runs[p].sends = 1 /\ runs[p].raw # None
            /\ Len(audit.log) = Cardinality({q \in Procs : runs[q].result = "OK"})

\* one Run failed at validation with no I/O, another failed at the execution
\* after its one send, and nothing was parsed or audited
C25_Witness ==
    \E p, q \in Procs :
        /\ Done(p) /\ Resolves(p) /\ runs[p].command \notin ValidCommands
        /\ ~NetworkIO(p)
        /\ Done(q) /\ runs[q].stage = "execute" /\ runs[q].sends = 1
        /\ ~LaterSteps(q)
        /\ audit.log = <<>>

\* the platform identifiers of the data model
KnownPlatforms ==
    { <<"i","o","s">>, <<"i","o","s","x","e">>, <<"i","o","s","x","r">>,
      <<"n","x","o","s">>, <<"a","s","a">> }

\* a file content every record of which satisfies the data model: a port
\* override, if any, is a TCP port, the platform is known, credentials may be
\* absent
WellFormed(body) ==
    \A i \in DOMAIN body :
        /\ body[i].port = None \/ body[i].port[1] \in 1..65535
        /\ [k \in DOMAIN body[i].platform |-> LowerChar(body[i].platform[k])]
               \in KnownPlatforms

\* the call answered, and its answer is the one the table gives
Answers(call, table) ==
    /\ call.ok
    /\ call.op = "list_devices" => call.listed = VisibleOf(table, call.user)
    /\ call.op = "get_device" =>
          call.got = IF call.hostname \in DOMAIN table
                        /\ VisibleTo(table[call.hostname], call.user)
                     THEN Some(table[call.hostname])
                     ELSE None

\* C26 (step): an access that finds the file newer than the last successful
\* load, or nothing loaded yet, reads the file and answers from its content if
\* that is well-formed, and from the table loaded last if it is not; an access
\* that finds the file no newer answers from the cached table without reading
\* the file
C26_FreshnessStep ==
    file' = file =>
        LET loaded == _CACHE_MTIME > 0
            newer  == ~loaded \/ file.mtime > _CACHE_MTIME
        IN  /\ newer /\ WellFormed(file.body) =>
                  lastCall'.read /\ Answers(lastCall', TableOf(file.body))
            /\ newer /\ ~WellFormed(file.body) /\ loaded =>
                  Answers(lastCall', _CACHE)
            /\ ~newer => ~lastCall'.read /\ Answers(lastCall', _CACHE)

\* C26: every access re-checks the modification time of the file and answers
\* from the latest well-formed content
C26_FreshnessOnEveryAccess == [][C26_FreshnessStep]_vars

\* the send of the run has failed: its session is being purged, or the run
\* has ended at the execution
SendFailed(p) ==
    \/ runs[p].pc \in {"purge_close", "purge_pop"}
    \/ Done(p) /\ runs[p].stage = "execute"

\* C27 (state part): a Run sends its command at most once and opens at most
\* once; a Run whose send failed had acquired a session and sent once, and
\* ends as an execution failure carrying the cause of the send
C27_AtMostOneSend ==
    \A p \in Procs :
        /\ runs[p].sends <= 1
        /\ runs[p].passes <= 1
        /\ SendFailed(p) =>
              /\ runs[p].sends = 1 /\ runs[p].conn # 0
              /\ Done(p) =>
                    /\ runs[p].result = "CommandExecutionError"
                    /\ runs[p].cause # ""
                    /\ runs[p].raw = None

\* C27 (step part): once the send of a Run has failed, no step opens a
\* connection for the Run, gives it another session or sends again
C27_NoRetryStep ==
    \A p \in Procs :
        SendFailed(p) =>
            /\ runs'[p].sends = runs[p].sends
            /\ runs'[p].passes = runs[p].passes
            /\ runs'[p].conn = runs[p].conn
            /\ runs'[p].pc \in {"purge_close", "purge_pop", "done"}
            /\ conns'[p].made = conns[p].made

\* C27: purge without retry
C27_PurgeWithoutRetry == []C27_AtMostOneSend /\ [][C27_NoRetryStep]_vars

\* a Run that opened a session and failed its one send has ended as an
\* execution failure, its session closed and out of the pool
C27_Witness ==
    \E p \in Procs :
        /\ Done(p) /\ runs[p].stage = "execute"
        /\ runs[p].passes = 1 /\ runs[p].sends = 1
        /\ runs[p].result = "CommandExecutionError"
        /\ conns[runs[p].conn].closed
        /\ _POOL[runs[p].device] = 0

\* an open, a send or a close of the run is in progress on its device
IOInProgress(p) == runs[p].pc \in {"opening", "sending", "purge_close"}

\* the run is the next one to be started
NextToStart(q) ==
    runs[q].pc = "idle" /\ (q = 1 \/ runs[q - 1].pc # "idle")

\* C28: while an open, a send or a close of one Run is in progress, a Run for
\* any other device can be started, and every other Run in flight can take
\* its next step: the blocking call does not hold the request dispatcher
C28_SlowDeviceNeverStalls ==
    \A q \in Procs :
        LET busy == {p \in Procs \ {q} : IOInProgress(p)}
        IN  busy # {} =>
                /\ NextToStart(q) =>
                      \A device \in Hostnames \ {runs[p].device : p \in busy} :
                          ENABLED (\E command \in Commands, user \in Users,
                                      dropped \in BOOLEAN :
                                      Enter(q, device, command, user, dropped))
                /\ runs[q].pc = "opening" => ENABLED Open(q)
                /\ runs[q].pc = "opened" => ENABLED Insert(q)
                /\ runs[q].pc = "sending" => ENABLED Send(q)
                /\ runs[q].pc = "purge_close" => ENABLED PurgeClose(q)
                /\ runs[q].pc = "purge_pop" => ENABLED PurgePop(q)

\* the open of one Run is still in progress while a Run for another device,
\* started after it, has opened its session, sent and ended
C28_Witness ==
    \E p, q \in Procs :
        /\ p < q
        /\ runs[p].pc = "opening"
        /\ Done(q) /\ runs[q].device # runs[p].device
        /\ runs[q].passes = 1 /\ runs[q].sends = 1

\* the audit events emitted for the run: those that carry its caller, device,
\* command and the length of its output
EventsOf(p) ==
    {i \in DOMAIN audit.log :
        /\ audit.log[i].user = runs[p].user.username
        /\ audit.log[i].device = runs[p].device
        /\ audit.log[i].command = runs[p].command
        /\ audit.log[i].raw_len = Len(runs[p].raw[1])}

\* C29: the event emitted for a Run that returned carries the caller, the
\* device, the command and the output length of that Run, and its has_json is
\* true exactly when the result of the Run carries a structured parse: false
\* when the parser failed and when no parser matches the command
C29_HasJsonMatchesParse ==
    /\ Len(audit.log) = Cardinality({p \in Procs : runs[p].result = "OK"})
    /\ \A p \in Procs :
          Done(p) /\ runs[p].result = "OK" =>
              /\ EventsOf(p) # {}
              /\ \A i \in EventsOf(p) :
                    /\ audit.log[i].has_json <=> runs[p].parsed # None
                    /\ runs[p].parseRaised => ~audit.log[i].has_json
                    /\ ~IsInterfaceBrief(runs[p].command) =>
                          ~audit.log[i].has_json

\* a Run of the interface-brief command returned a parse with two interfaces
\* and its event has has_json set
C29_Witness ==
    \E p \in Procs :
        /\ Done(p) /\ runs[p].result = "OK"
        /\ runs[p].parsed # None
        /\ Len(runs[p].parsed[1].interfaces) = 2
        /\ \E i \in EventsOf(p) : audit.log[i].has_json

\* a Run in flight holds the connection: it got it from the pool or from its
\* open and has not ended
HeldInFlight(c) ==
    \E p \in Procs :
        /\ Started(p) /\ ~Done(p)
        /\ runs[p].conn = c \/ (p = c /\ runs[p].pc = "opened")

\* the connection has been opened and not closed
OpenNotClosed(c) == conns[c].made /\ ~conns[c].closed

---------------------------------------------------------------------------
(* C31 *)

\* connection c is in working order: opened, not closed, and no send on it
\* has failed
Healthy(c) == conns[c].made /\ conns[c].alive /\ ~conns[c].failed

\* the step is the pop of the _purge of Run p and it empties the entry of h
PurgePops(p, h) ==
    /\ runs[p].pc = "purge_pop" /\ runs'[p].pc = "done"
    /\ runs[p].dev[1].hostname = h
    /\ _POOL[h] # 0 /\ _POOL'[h] = 0

\* C31: a purge evicts only the session of the Run that purges: whenever the
\* _purge of a Run empties the pool entry of a hostname, the entry was the
\* session that Run held; in particular a healthy session another Run has put
\* under the same hostname is not removed by it
C31_PurgeEvictsOwnSession ==
    [][\A p \in Procs, h \in Hostnames :
          PurgePops(p, h) =>
              /\ _POOL[h] = runs[p].conn
              /\ ~(_POOL[h] # runs[p].conn /\ Healthy(_POOL[h]))]_vars

---------------------------------------------------------------------------
(* C32 *)

\* Run p has acquired a session and its send_command on it has not returned
Executing(p) == runs[p].pc = "sending"

\* C32: no use after close across callers: a Run that has acquired a session
\* and has not finished its command on it never holds a closed session.  A Run
\* closes only in its own _purge, after its own send has ended, so a closed
\* session under an executing Run was closed by another Run: either while this
\* Run was executing on it, or before this Run sends on it
C32_NoUseAfterClose ==
    \A p \in Procs : Executing(p) => ~conns[runs[p].conn].closed

---------------------------------------------------------------------------
(* C33 *)

\* the Device record connection c was opened with: connection c is made by
\* the _open of Run c, from the record that Run resolved (self._dev)
OpenedWith(c) == runs[c].dev[1]

\* the fields of a record a session depends on
Endpoint(d) == [host |-> d.host, port |-> d.port, username |-> d.username,
                password |-> d.password]

\* C33: the session a Run acquires is connected to the device record as the
\* Run resolved it from the inventory currently loaded: a Run never holds, for
\* its send, a session opened with a record of another address, port or
\* credentials
C33_SessionOfCurrentRecord ==
    \A p \in Procs :
        Executing(p) =>
            Endpoint(OpenedWith(runs[p].conn)) = Endpoint(runs[p].dev[1])

---------------------------------------------------------------------------
(* C34 *)

\* the _open of Run p has run for a record the inventory validation accepts
OpenedForServed(p) ==
    /\ runs[p].passes > 0
    /\ DeviceValid(runs[p].dev[1])

\* C34: every platform the inventory validation accepts has a driver: the
\* open of a device record the inventory can serve selects a driver and makes
\* a first transport attempt; it never fails as "unsupported platform"
C34_AcceptedPlatformHasDriver ==
    \A p \in Procs :
        OpenedForServed(p) =>
            /\ runs[p].cause # "Unsupported platform"
            /\ Len(runs[p].log) >= 1

---------------------------------------------------------------------------
(* C35 *)

\* every record of the file content passes the validation of the inventory:
\* the credentials are given, a port override is a TCP port, the platform is
\* known
Loadable(body) ==
    /\ WellFormed(body)
    /\ \A i \in DOMAIN body :
          body[i].username # None /\ body[i].password # None

\* the step is an access to the inventory (the file is not rewritten by it)
AccessStep == file' = file /\ lastCall'.op # ""

\* the last access failed to reload
LastAccessFailed == lastCall.op # "" /\ ~lastCall.ok

\* C35: a failed reload changes nothing: an access whose reload fails leaves
\* the cached table and the recorded modification time as they were; the
\* access after it reads the file again, and if the file is then one that
\* passes validation, its table and modification time are taken
C35_FailedReloadChangesNothing ==
    [][AccessStep =>
          /\ ~lastCall'.ok =>
                _CACHE' = _CACHE /\ _CACHE_MTIME' = _CACHE_MTIME
          /\ LastAccessFailed => lastCall'.read
          /\ LastAccessFailed /\ Loadable(file.body) =>
                /\ lastCall'.ok
                /\ _CACHE' = TableOf(file.body)
                /\ _CACHE_MTIME' = file.mtime]_vars

\* an access failed to reload a rewritten file while a table of an earlier
\* load is cached: table and modification time are those of the earlier load
C35_Witness ==
    /\ LastAccessFailed
    /\ lastCall.read
    /\ _CACHE # EmptyTable
    /\ lastCall.before = _CACHE
    /\ _CACHE_MTIME < file.mtime
    /\ ~Loadable(file.body)

====
